---- MODULE Spec2Model ----
(***************************************************************************)
(* Model of the secure-heap proof of concept:                              *)
(*   - SecureHeapSecretManager (src/secure-heap-secret-manager.js), driven *)
(*     through its public methods by an arbitrary caller (Spec; SpecAlloc  *)
(*     for the allocation check from any initial usage; SpecDec for        *)
(*     repeated decryption of a stored password);                          *)
(*   - SecureHeapProcessManager (src/unnamed/part_002, the version with    *)
(*     withDecryptedPassword) talking to a worker over IPC (SpecPM), with  *)
(*     stop() (SpecStop), and with the grace timer, the worker's exit and  *)
(*     the signal handlers of the manager-side process (SpecLife);         *)
(*   - both together with the worker in between (SpecE2E, SpecE2EFair).    *)
(* Further specifications study one operation each: #setEncryptedPassword  *)
(* with arguments of any kind (SpecEnc), a shutdown() step that throws     *)
(* (SpecFault), the key's allocation leaving the secure heap (SpecEvict),  *)
(* requests around stop() and the worker's exit (SpecSettle,               *)
(* SpecSettleFair), the 'message' handler fed with any message (SpecStray),*)
(* result payloads byte by byte (SpecPayload), a second                    *)
(* generateSecureKeypair call (SpecRegen), the message handler of          *)
(* src/secure-worker.js case by case (SpecWorker) and overlapping          *)
(* withDecryptedPassword invocations (SpecConc).                           *)
(* Buffers are heap objects: an id indexes a record holding the current    *)
(* content and the number of times crypto.randomFillSync ran on it.        *)
(***************************************************************************)
EXTENDS Integers, Sequences, FiniteSets, TLC

\* ---------------------------------------------------------------- bounds
MaxBufs  == 1      \* buffers getDecryptedPassword hands out
MaxKeys  == 1      \* key pairs generated
MaxPlain == 1      \* distinct plaintext contents 1..MaxPlain
MaxDelta == 1      \* secure-heap growth of one key generation, 0..MaxDelta
MaxMsgId == 2      \* requests the process manager issues
MaxInv   == 1      \* withDecryptedPassword invocations
MaxUsed0 == 2      \* secure-heap usage before any key pair, 0..MaxUsed0
MaxDecs  == 2      \* buffers handed out where repeated decryption is studied
MaxSeq   == 2      \* withDecryptedPassword invocations made one after another
MaxLen   == 2      \* length of a byte array where payloads are studied

NULL      == 0
EncRef    == 1     \* this.encryptedPassword when it refers to a Buffer
Undefined == 0 - 1

Plaintexts == 1..MaxPlain
\* crypto.randomFillSync writes random bytes.  A draw either differs from
\* the bytes the buffer held (FALSE: the content becomes 0, "other bytes")
\* or happens to repeat them (TRUE: the content stays).
FillDraws  == BOOLEAN
BufIds     == 1..MaxBufs

VARIABLES
    \* ---- SecureHeapSecretManager fields
    rsaPrivateKey, rsaPublicKey,
    encryptedPassword,  \* NULL, or EncRef: the reference to encBuf
    isShutdown,
    activeBuffers, secureHeapAllocationBaseline,
    \* ---- the secret-manager process
    bufs,           \* the Buffers crypto.privateDecrypt returned:
                    \* id -> [kind, data, key, fills]
    nextBuf,        \* number of them so far
    encBuf,         \* the Buffer crypto.publicEncrypt returned last
    heapUsed,       \* crypto.secureHeapUsed().used
    keysMade,       \* key pairs generated so far
    gsk,            \* suspended generateSecureKeypair call
    rip,            \* suspended readInPassword call
    \* ---- observation of the secret manager
    lastOp,         \* the step that ran last and how it ended; for a
                    \* resumed readInPassword also what happened to its
                    \* passwordBuffer in #setEncryptedPassword and after
    deregistered,   \* buffers removeFromTracking took out of activeBuffers
    decrypted,      \* what each successful getDecryptedPassword returned:
                    \* the Buffer, its bytes then, the ciphertext then
    \* ---- the worker around the secret manager
    wsend,          \* responses handed to process.send whose completion
                    \* callback has not run: [id, buf]
    \* ---- SecureHeapProcessManager fields
    msgId, pending,
    \* ---- the manager-side process and the channel
    toChild,        \* requests sent, not yet answered
    fromChild,      \* responses in flight
    mbufs,          \* request id -> Buffer built by Buffer.from(data.data)
    payloads,       \* request id -> the array msg.data.data of a result
    inv,            \* withDecryptedPassword invocations
    \* ---- observation of the process manager
    settled,        \* request id -> how its promise settled
    lastReq,        \* the last handleRequest call
    errlog,         \* what the 'message' handler wrote with console.error
    \* ---- the worker as the manager-side process sees it, and that process
    child,          \* this.child: [alive, killed, signals, timer]
    proc,           \* the manager-side process: "running" or "exited"
    stopTick        \* flips each time stop() runs

smFields == <<rsaPrivateKey, rsaPublicKey, encryptedPassword, isShutdown,
              activeBuffers, secureHeapAllocationBaseline>>
smProc   == <<bufs, nextBuf, encBuf, heapUsed, keysMade, gsk, rip>>
smObs    == <<lastOp, deregistered, decrypted>>
wkVars   == <<wsend>>
smVars   == <<smFields, smProc, smObs, wkVars>>
lifeVars == <<child, proc, stopTick>>
pmVars   == <<msgId, pending, toChild, fromChild, mbufs, payloads, inv,
              settled, lastReq, errlog, lifeVars>>
vars     == <<smVars, pmVars>>

\* ------------------------------------------------------------ buffers
FreeBuf == [kind |-> "free", data |-> 0, key |-> 0, fills |-> 0]

\* crypto.randomFillSync(buffer) with draw v: one more overwrite
RandomFillSync(b, v) ==
    IF v THEN [b EXCEPT !.fills = @ + 1]
    ELSE [b EXCEPT !.data = 0, !.key = 0, !.fills = @ + 1]

\* the buffers getDecryptedPassword has returned to its callers
held == 1..nextBuf

NoSep == [called |-> FALSE, shutdown |-> FALSE, err |-> "none",
          isBuffer |-> TRUE, data |-> 0, before |-> 0, after |-> 0,
          dataAfter |-> 0, final |-> 0]

Op(name, err) == [op |-> name, err |-> err, sep |-> NoSep]

\* ------------------------------------------------- SecureHeapSecretManager
SMInit ==
    /\ rsaPrivateKey = NULL
    /\ rsaPublicKey = NULL
    /\ encryptedPassword = NULL
    /\ isShutdown = FALSE
    /\ activeBuffers = {}
    /\ secureHeapAllocationBaseline = Undefined
    /\ bufs = [b \in BufIds |-> FreeBuf]
    /\ nextBuf = 0
    /\ encBuf = FreeBuf
    /\ heapUsed = 0
    /\ keysMade = 0
    /\ gsk = [pc |-> "idle", before |-> 0]
    /\ rip = [pc |-> "idle"]
    /\ lastOp = Op("constructor", "none")
    /\ deregistered = {}
    /\ decrypted = <<>>
    /\ wsend = {}

\* #checkShutdown(): TRUE when it throws
CheckShutdownNever(down) == FALSE
CheckShutdown(down) == down

\* `if (this.isShutdown) return;` (lines 62-64): TRUE when shutdown()
\* returns at once
AlreadyShutdownNever(down) == FALSE
AlreadyShutdown(down) == down

\* shutdown()
shutdown ==
    /\ IF AlreadyShutdown(isShutdown)
       THEN UNCHANGED <<smFields, bufs, encBuf>>
       ELSE /\ \E f \in [activeBuffers -> FillDraws] :
                bufs' = [b \in DOMAIN bufs |->
                           IF b \in activeBuffers
                           THEN RandomFillSync(bufs[b], f[b])
                           ELSE bufs[b]]
            /\ IF encryptedPassword # NULL
               THEN \E v \in FillDraws : encBuf' = RandomFillSync(encBuf, v)
               ELSE UNCHANGED encBuf
            /\ encryptedPassword' = NULL
            /\ activeBuffers' = {}
            /\ rsaPrivateKey' = NULL
            /\ rsaPublicKey' = NULL
            /\ isShutdown' = TRUE
            /\ UNCHANGED secureHeapAllocationBaseline
    /\ lastOp' = Op("shutdown", "none")
    /\ UNCHANGED <<nextBuf, heapUsed, keysMade, gsk, rip, deregistered>>

\* shutdown() in which a call inside the try block throws (lines 68-103):
\* control passes to the catch block, which logs the error and sets
\* isShutdown; shutdown() itself returns normally.  The throwing call is
\* the randomFillSync of the encrypted password, the randomFillSync of one
\* of the registered Buffers (those iterated before it, `done`, have been
\* overwritten), or global.gc().
ShutdownSteps == {"encryptedPassword", "activeBuffer", "gc"}

shutdownThrows ==
    /\ ~AlreadyShutdown(isShutdown)
    /\ \E step \in ShutdownSteps :
        /\ lastOp' = Op("shutdown", step)
        /\ isShutdown' = TRUE
        /\ UNCHANGED secureHeapAllocationBaseline
        /\ IF step = "encryptedPassword"
           THEN /\ encryptedPassword # NULL
                /\ UNCHANGED <<encryptedPassword, encBuf, bufs, activeBuffers,
                               rsaPrivateKey, rsaPublicKey>>
           ELSE /\ IF encryptedPassword # NULL
                   THEN \E v \in FillDraws :
                            encBuf' = RandomFillSync(encBuf, v)
                   ELSE UNCHANGED encBuf
                /\ encryptedPassword' = NULL
                /\ IF step = "activeBuffer"
                   THEN /\ activeBuffers # {}
                        /\ \E t \in activeBuffers :
                           \E done \in SUBSET (activeBuffers \ {t}) :
                           \E f \in [done -> FillDraws] :
                              bufs' = [b \in DOMAIN bufs |->
                                         IF b \in done
                                         THEN RandomFillSync(bufs[b], f[b])
                                         ELSE bufs[b]]
                        /\ UNCHANGED <<activeBuffers, rsaPrivateKey,
                                       rsaPublicKey>>
                   ELSE /\ \E f \in [activeBuffers -> FillDraws] :
                              bufs' = [b \in DOMAIN bufs |->
                                         IF b \in activeBuffers
                                         THEN RandomFillSync(bufs[b], f[b])
                                         ELSE bufs[b]]
                        /\ activeBuffers' = {}
                        /\ rsaPrivateKey' = NULL
                        /\ rsaPublicKey' = NULL
    /\ UNCHANGED <<nextBuf, heapUsed, keysMade, gsk, rip, deregistered>>

\* getSecureHeapUsage()
getSecureHeapUsage ==
    /\ lastOp' = Op("getSecureHeapUsage",
                    IF CheckShutdown(isShutdown) THEN "Shutdown" ELSE "none")
    /\ UNCHANGED <<smFields, smProc, deregistered>>

\* generateSecureKeypair(): the call, up to the first await (lines 133-137)
GenerateSecureKeypairCall(limit) ==
    /\ gsk.pc = "idle"
    /\ keysMade < limit
    /\ IF CheckShutdown(isShutdown)
       THEN /\ lastOp' = Op("generateSecureKeypair", "Shutdown")
            /\ UNCHANGED gsk
       ELSE /\ lastOp' = Op("generateSecureKeypair", "none")
            /\ gsk' = [pc |-> "await1", before |-> 0]
    /\ UNCHANGED <<smFields, bufs, nextBuf, encBuf, heapUsed, keysMade, rip,
                   deregistered>>

generateSecureKeypair == GenerateSecureKeypairCall(MaxKeys)

\* generateSecureKeypair() where the application may call it once more
\* than elsewhere: on a manager that has its key pair
generateSecureKeypairAgain == GenerateSecureKeypairCall(MaxKeys + 1)

\* generateSecureKeypair(): after the first timer, up to the second await
\* (lines 139-158); heapUsed is a number >= 0, so the measurement is valid
generateSecureKeypairResume1 ==
    /\ gsk.pc = "await1"
    /\ \E d \in 0..MaxDelta :
        /\ gsk' = [pc |-> "await2", before |-> heapUsed]
        /\ keysMade' = keysMade + 1
        /\ rsaPrivateKey' = keysMade + 1
        /\ rsaPublicKey' = keysMade + 1
        /\ heapUsed' = heapUsed + d
    /\ lastOp' = Op("generateSecureKeypair:resume1", "none")
    /\ UNCHANGED <<encryptedPassword, isShutdown, activeBuffers,
                   secureHeapAllocationBaseline, bufs, nextBuf, encBuf, rip,
                   deregistered>>

\* `allocationAfter <= allocationBefore` (line 167): TRUE when the call
\* throws 'RSA keypair may not be stored in secure heap'
NotAllocatedOnlyIfLess(before, after) == after < before
NotAllocated(before, after) == after <= before

\* generateSecureKeypair(): after the second timer (lines 159-171)
generateSecureKeypairResume2 ==
    /\ gsk.pc = "await2"
    /\ gsk' = [pc |-> "idle", before |-> 0]
    /\ IF NotAllocated(gsk.before, heapUsed)
       THEN /\ lastOp' = Op("generateSecureKeypair:resume2", "Allocation")
            /\ UNCHANGED secureHeapAllocationBaseline
       ELSE /\ lastOp' = Op("generateSecureKeypair:resume2", "none")
            /\ secureHeapAllocationBaseline' = heapUsed - gsk.before
    /\ UNCHANGED <<rsaPrivateKey, rsaPublicKey, encryptedPassword, isShutdown,
                   activeBuffers, bufs, nextBuf, encBuf, heapUsed, keysMade,
                   rip, deregistered>>

\* verifyExpectedAllocation()
verifyExpectedAllocation ==
    /\ lastOp' = Op("verifyExpectedAllocation",
                    IF CheckShutdown(isShutdown) THEN "Shutdown"
                    ELSE IF secureHeapAllocationBaseline <= 0
                         THEN "InvalidBaseline"
                    ELSE IF ~(heapUsed >= secureHeapAllocationBaseline)
                         THEN "Allocation"
                    ELSE "none")
    /\ UNCHANGED <<smFields, smProc, deregistered>>

\* the key's allocation leaves the secure heap right after a successful
\* generateSecureKeypair: crypto.secureHeapUsed().used falls by what the
\* generation had added, that is, back to the level measured before it
\* (allocationBefore, line 139)
keyEvicted ==
    /\ lastOp.op = "generateSecureKeypair:resume2"
    /\ lastOp.err = "none"
    /\ heapUsed' = heapUsed - secureHeapAllocationBaseline
    /\ lastOp' = Op("keyEvicted", "none")
    /\ UNCHANGED <<smFields, bufs, nextBuf, encBuf, keysMade, gsk, rip,
                   deregistered>>

\* the finally block of #setEncryptedPassword (lines 272-275)
SepFinallySkip(b, v) == b
SepFinally(b, v) == RandomFillSync(b, v)

\* Buffer.isBuffer(passwordBuffer) (line 259)
IsBufferAny(x) == TRUE
IsBuffer(x) == x.kind = "plain"

\* #setEncryptedPassword(passwordBuffer) on the Buffer pb; v is the bytes
\* the overwrite draws.  The result is the outcome, the Buffer as the
\* method leaves it, and the encrypted password it stores.
SetEncryptedPassword(pb, v) ==
    IF CheckShutdown(isShutdown)
    THEN [err |-> "Shutdown", pb |-> pb, stored |-> FALSE, enc |-> encBuf]
    ELSE IF ~IsBuffer(pb)
    THEN \* 'SECURITY ERROR: setEncryptedPassword requires a Buffer'
         [err |-> "Validation", pb |-> pb, stored |-> FALSE, enc |-> encBuf]
    ELSE IF rsaPublicKey = NULL
    THEN \* crypto.publicEncrypt throws on a null key
         [err |-> "Encrypt", pb |-> SepFinally(pb, v), stored |-> FALSE,
          enc |-> encBuf]
    ELSE [err |-> "none", pb |-> SepFinally(pb, v), stored |-> TRUE,
          enc |-> [kind |-> "cipher", data |-> pb.data,
                   key |-> rsaPublicKey, fills |-> 0]]

\* the values #setEncryptedPassword is handed: a Buffer holding p, or a
\* string spelling p
EncryptArgs == {[kind |-> k, data |-> p, key |-> 0, fills |-> 0] :
                  k \in {"plain", "string"}, p \in Plaintexts}

\* #setEncryptedPassword(arg) called on its own, with any of these values
setEncryptedPassword ==
    /\ \E arg \in EncryptArgs, v \in FillDraws :
        LET r == SetEncryptedPassword(arg, v)
        IN  /\ r.pb.fills = arg.fills => v = FALSE
            /\ encBuf' = r.enc
            /\ encryptedPassword' =
                   IF r.stored THEN EncRef ELSE encryptedPassword
            /\ lastOp' = [op |-> "setEncryptedPassword", err |-> r.err,
                          sep |-> [called |-> TRUE, shutdown |-> isShutdown,
                                   err |-> r.err,
                                   isBuffer |-> arg.kind = "plain",
                                   data |-> arg.data,
                                   before |-> arg.fills,
                                   after |-> r.pb.fills,
                                   dataAfter |-> r.pb.data,
                                   final |-> r.pb.fills]]
    /\ UNCHANGED <<rsaPrivateKey, rsaPublicKey, isShutdown, activeBuffers,
                   secureHeapAllocationBaseline, bufs, nextBuf, heapUsed,
                   keysMade, gsk, rip, deregistered>>

\* readInPassword(): the call, up to `await bufferIO.readIn` (lines 207-216)
readInPassword ==
    /\ rip.pc = "idle"
    /\ IF CheckShutdown(isShutdown)
       THEN /\ lastOp' = Op("readInPassword", "Shutdown")
            /\ UNCHANGED rip
       ELSE /\ lastOp' = Op("readInPassword", "none")
            /\ rip' = [pc |-> "readIn"]
    /\ UNCHANGED <<smFields, bufs, nextBuf, encBuf, heapUsed, keysMade, gsk,
                   deregistered>>

\* readInPassword(): bufferIO.readIn rejected (lines 223-238, no buffer)
readInRejected ==
    /\ rip.pc = "readIn"
    /\ rip' = [pc |-> "idle"]
    /\ lastOp' = Op("readInPassword:resume", "ReadIn")
    /\ UNCHANGED <<smFields, bufs, nextBuf, encBuf, heapUsed, keysMade, gsk,
                   deregistered>>

\* readInPassword(): bufferIO.readIn resolved with a buffer holding p
\* (lines 216-238): track, #setEncryptedPassword, catch, finally.  The
\* passwordBuffer is a local of this call; lastOp.sep keeps what happened.
readInResolved ==
    /\ rip.pc = "readIn"
    /\ \E p \in Plaintexts, v1 \in FillDraws, v2 \in FillDraws :
        LET pb0 == [kind |-> "plain", data |-> p, key |-> 0, fills |-> 0]
            r   == SetEncryptedPassword(pb0, v1)
            \* catch: delete from tracking, overwrite, rethrow
            pb1 == IF r.err # "none" THEN RandomFillSync(r.pb, v2) ELSE r.pb
        IN  /\ r.err = "none" => v2 = FALSE
            /\ encBuf' = r.enc
            /\ encryptedPassword' =
                   IF r.stored THEN EncRef ELSE encryptedPassword
            \* added at line 219, deleted at line 226 or 233: the set is
            \* the same before and after
            /\ UNCHANGED activeBuffers
            /\ lastOp' = [op |-> "readInPassword:resume", err |-> r.err,
                          sep |-> [called |-> TRUE, shutdown |-> isShutdown,
                                   err |-> r.err, isBuffer |-> TRUE,
                                   data |-> p,
                                   before |-> pb0.fills,
                                   after |-> r.pb.fills,
                                   dataAfter |-> r.pb.data,
                                   final |-> pb1.fills]]
    /\ rip' = [pc |-> "idle"]
    /\ UNCHANGED <<rsaPrivateKey, rsaPublicKey, isShutdown,
                   secureHeapAllocationBaseline, bufs, nextBuf, heapUsed,
                   keysMade, gsk, deregistered>>

\* crypto.privateDecrypt succeeds: a key, a ciphertext made under that key
\* and not overwritten since
CanDecrypt ==
    /\ rsaPrivateKey # NULL
    /\ encryptedPassword # NULL
    /\ encBuf.kind = "cipher"
    /\ encBuf.fills = 0
    /\ encBuf.key = rsaPrivateKey

\* this.activeBuffers.add(decryptedPassword) (line 297)
TrackSkip(set, b) == set
Track(set, b) == set \cup {b}

\* crypto.privateDecrypt(key, this.encryptedPassword) (lines 289-292): the
\* plaintext the stored ciphertext was made from
PrivateDecryptLastReturned(enc) ==
    IF nextBuf > 0 THEN bufs[nextBuf].data ELSE enc.data
PrivateDecrypt(enc) == enc.data

\* getDecryptedPassword()
getDecryptedPassword ==
    /\ nextBuf + 1 \in DOMAIN bufs
    /\ IF CheckShutdown(isShutdown)
       THEN /\ lastOp' = Op("getDecryptedPassword", "Shutdown")
            /\ UNCHANGED <<bufs, nextBuf, activeBuffers, decrypted>>
       ELSE IF ~CanDecrypt
       THEN /\ lastOp' = Op("getDecryptedPassword", "Decrypt")
            /\ UNCHANGED <<bufs, nextBuf, activeBuffers, decrypted>>
       ELSE LET d == nextBuf + 1
                plain == [kind |-> "plain", data |-> PrivateDecrypt(encBuf),
                          key |-> 0, fills |-> 0]
            IN  /\ bufs' = [bufs EXCEPT ![d] = plain]
                /\ nextBuf' = d
                /\ activeBuffers' = Track(activeBuffers, d)
                /\ decrypted' = Append(decrypted,
                                       [buf |-> d, data |-> plain.data,
                                        enc |-> encBuf])
                /\ lastOp' = Op("getDecryptedPassword", "none")
    /\ UNCHANGED <<rsaPrivateKey, rsaPublicKey, encryptedPassword, isShutdown,
                   secureHeapAllocationBaseline, encBuf, heapUsed, keysMade,
                   gsk, rip, deregistered>>

\* this.activeBuffers.delete(buffer) (line 312)
ActiveBuffersDeleteSkip(set, b) == set
ActiveBuffersDelete(set, b) == set \ {b}

\* removeFromTracking(buffer), for any buffer the caller holds
removeFromTracking ==
    /\ \E b \in held :
        /\ activeBuffers' = ActiveBuffersDelete(activeBuffers, b)
        /\ deregistered' = deregistered \cup ({b} \cap activeBuffers)
    /\ lastOp' = Op("removeFromTracking", "none")
    /\ UNCHANGED <<rsaPrivateKey, rsaPublicKey, encryptedPassword, isShutdown,
                   secureHeapAllocationBaseline, smProc>>

\* the caller of getDecryptedPassword overwrites the buffer it was given,
\* once (crypto.randomFillSync in the caller's finally block)
callerSanitize ==
    /\ \E b \in held, v \in FillDraws :
        /\ bufs[b].fills = 0
        /\ bufs' = [bufs EXCEPT ![b] = RandomFillSync(@, v)]
    /\ lastOp' = Op("callerSanitize", "none")
    /\ UNCHANGED <<smFields, nextBuf, encBuf, heapUsed, keysMade, gsk, rip,
                   deregistered>>

\* ------------------------------------------------ SecureHeapProcessManager
validRequests == {"generateSecureKeypair", "checkSecureHeapEnabled",
                  "readInPassword", "getDecryptedPassword",
                  "verifyExpectedAllocation"}
\* a response type "<request>:result" / "<request>:error" is the pair
\* <<request, suffix>>
validChildMessageTypes == {<<r, "result">> : r \in validRequests}

\* the request types callers pass to handleRequest
RequestInputs == {"getDecryptedPassword", "verifyExpectedAllocation",
                  "bogusRequest"}
\* what a callback given to withDecryptedPassword does
CallbackKinds == {"return", "throw", "asyncResolve", "asyncReject"}
ErrorMessages == {"worker error"}

NoReq == [type |-> "", rejected |-> FALSE]
IdleInv == [pc |-> "idle", reqId |-> 0, cb |-> "", outcome |-> "none"]

\* the manager-side state after construction, with room for n
\* withDecryptedPassword invocations
PMInitFor(n) ==
    /\ msgId = 0
    /\ pending = <<>>
    /\ toChild = {}
    /\ fromChild = {}
    /\ mbufs = <<>>
    /\ payloads = <<>>
    /\ inv = [i \in 1..n |-> IdleInv]
    /\ settled = <<>>
    /\ lastReq = NoReq
    /\ errlog = {}
    /\ child = [alive |-> TRUE, killed |-> FALSE, signals |-> {}, timer |-> 0]
    /\ proc = "running"
    /\ stopTick = FALSE

PMInit == PMInitFor(MaxInv)

\* this.pending.delete(k)
WithoutNothing(f, k) == f
Without(f, k) == [x \in DOMAIN f \ {k} |-> f[x]]

\* validRequests.includes(type) (line 126)
IsValidRequestAny(type) == TRUE
IsValidRequest(type) == type \in validRequests

\* handleRequest(type): the part that runs when the type is valid
\* (lines 130-134)
SendRequest(type) ==
    /\ msgId' = msgId + 1
    /\ pending' = pending @@ ((msgId + 1) :> type)
    /\ toChild' = toChild \cup {[type |-> type, id |-> msgId + 1]}

\* handleRequest(type, params) called directly by the application
handleRequest ==
    /\ msgId < MaxMsgId
    /\ \E type \in RequestInputs :
        IF ~IsValidRequest(type)
        THEN /\ lastReq' = [type |-> type, rejected |-> TRUE]
             /\ UNCHANGED <<msgId, pending, toChild>>
        ELSE /\ lastReq' = [type |-> type, rejected |-> FALSE]
             /\ SendRequest(type)
    /\ UNCHANGED <<fromChild, mbufs, payloads, inv, settled, errlog>>

\* withDecryptedPassword(callback), up to `await this.handleRequest`
\* (lines 144-150)
withDecryptedPassword ==
    /\ msgId < MaxMsgId
    /\ \E i \in DOMAIN inv, cb \in CallbackKinds \cup {"notAFunction"} :
        /\ inv[i].pc = "idle"
        /\ IF cb = "notAFunction"
           THEN /\ inv' = [inv EXCEPT ![i] =
                             [pc |-> "failed", reqId |-> 0, cb |-> cb,
                              outcome |-> "CallbackMustBeFunction"]]
                /\ UNCHANGED <<msgId, pending, toChild>>
           ELSE /\ inv' = [inv EXCEPT ![i] =
                             [pc |-> "awaitReq", reqId |-> msgId + 1,
                              cb |-> cb, outcome |-> "none"]]
                /\ SendRequest("getDecryptedPassword")
    /\ UNCHANGED <<fromChild, mbufs, payloads, settled, lastReq, errlog>>

\* the worker's message handler (src/secure-worker.js lines 3-23): one
\* response per request, tagged with the request's type and id.  A
\* decrypted secret travels as the JSON form {type:'Buffer', data:[...]};
\* a handler that sets no data leaves it undefined.
WorkerData(type) ==
    IF type = "getDecryptedPassword"
    THEN {[kind |-> "Buffer", data |-> p] : p \in Plaintexts}
         \cup {[kind |-> "undefined", data |-> 0]}
    ELSE {[kind |-> "object", data |-> 0]}

workerRespond ==
    /\ \E m \in toChild :
        /\ toChild' = toChild \ {m}
        /\ \/ \E d \in WorkerData(m.type) :
                fromChild' = fromChild \cup
                    {[type |-> <<m.type, "result">>, id |-> m.id,
                      data |-> d, error |-> ""]}
           \/ \E e \in ErrorMessages :
                fromChild' = fromChild \cup
                    {[type |-> <<m.type, "error">>, id |-> m.id,
                      data |-> [kind |-> "undefined", data |-> 0],
                      error |-> e]}
    /\ UNCHANGED <<msgId, pending, mbufs, payloads, inv, settled, lastReq,
                   errlog>>

\* any message the 'message' handler can be handed: a result or an error
\* of any type, tagged with any id, whatever is pending
AnyMessages ==
    {[type |-> <<t, "result">>, id |-> i,
      data |-> [kind |-> "object", data |-> 0], error |-> ""] :
        t \in RequestInputs, i \in 1..MaxMsgId}
    \cup
    {[type |-> <<t, "error">>, id |-> i,
      data |-> [kind |-> "undefined", data |-> 0], error |-> e] :
        t \in RequestInputs, i \in 1..MaxMsgId, e \in ErrorMessages}

\* such a message arrives from the child process, the one before having
\* been handled
anyMessage ==
    /\ fromChild = {}
    /\ \E m \in AnyMessages : fromChild' = fromChild \cup {m}
    /\ UNCHANGED <<msgId, pending, toChild, mbufs, payloads, inv, settled,
                   lastReq, errlog>>

\* ---- the worker of src/secure-worker.js, case by case
\* the cases of its switch (lines 7 and 11): the request types it handles
WorkerCases == {"checkSecureHeapUsage", "decryptPassword"}
\* the request types a message to the worker may carry: the ones it
\* handles and the ones the process manager sends
WorkerRequestTypes == WorkerCases \cup validRequests

\* a request {type, id} arrives at the worker; ids are not reused
requestArrives ==
    /\ \E t \in WorkerRequestTypes, i \in 1..MaxMsgId :
        /\ \A m \in toChild \cup fromChild : m.id # i
        /\ toChild' = toChild \cup {[type |-> t, id |-> i]}
    /\ UNCHANGED <<msgId, pending, fromChild, mbufs, payloads, inv, settled,
                   lastReq, errlog>>

\* process.on('message') of the worker (lines 3-23): outboundMsg starts as
\* {type: '<type>:result', id}; a case of the switch sets data; the
\* default case only logs; the catch block turns the message into
\* '<type>:error' with the error's message; process.send sends it
workerOnMessage ==
    /\ \E m \in toChild :
        /\ toChild' = toChild \ {m}
        /\ \/ /\ m.type = "checkSecureHeapUsage"
              /\ fromChild' = fromChild \cup
                     {[type |-> <<m.type, "result">>, id |-> m.id,
                       data |-> [kind |-> "object", data |-> 0],
                       error |-> ""]}
           \/ /\ m.type = "decryptPassword"
              /\ \E p \in Plaintexts :
                    fromChild' = fromChild \cup
                        {[type |-> <<m.type, "result">>, id |-> m.id,
                          data |-> [kind |-> "Buffer", data |-> p],
                          error |-> ""]}
           \/ /\ m.type \in WorkerCases
              /\ \E e \in ErrorMessages :
                    fromChild' = fromChild \cup
                        {[type |-> <<m.type, "error">>, id |-> m.id,
                          data |-> [kind |-> "undefined", data |-> 0],
                          error |-> e]}
           \/ /\ m.type \notin WorkerCases
              /\ fromChild' = fromChild \cup
                     {[type |-> <<m.type, "result">>, id |-> m.id,
                       data |-> [kind |-> "undefined", data |-> 0],
                       error |-> ""]}
    /\ UNCHANGED <<msgId, pending, mbufs, payloads, inv, settled, lastReq,
                   errlog>>

\* ---- result payloads byte by byte
\* the arrays a serialized Buffer carries: bytes, here the two extremes
ByteValues == {0, 255}
ByteArrays == UNION {[1..n -> ByteValues] : n \in 0..MaxLen}

\* what msg.data can be: {type: 'Buffer', data: [...]}, the JSON form of a
\* Buffer; {type: 'Buffer', data: <no array>}; an object of another type
\* that has an array in `data`; undefined
WirePayloads ==
    {[type |-> "Buffer", isArray |-> TRUE, data |-> a] : a \in ByteArrays}
    \cup {[type |-> "Buffer", isArray |-> FALSE, data |-> <<>>],
          [type |-> "Object", isArray |-> TRUE, data |-> <<255, 0>>],
          [type |-> "undefined", isArray |-> FALSE, data |-> <<>>]}

\* Buffer.from(array) of node:buffer (line 30): a new Buffer of the
\* array's length whose i-th byte is the i-th element, taken modulo 256
BufferFromArrayReversed(a) ==
    [i \in 1..Len(a) |-> a[Len(a) + 1 - i] % 256]
BufferFromArray(a) == [i \in 1..Len(a) |-> a[i] % 256]

\* lines 28-31: the value the promise is resolved with
Deserialize(d) ==
    IF d.type = "Buffer" /\ d.isArray
    THEN [type |-> "NativeBuffer", isArray |-> FALSE,
          data |-> BufferFromArray(d.data)]
    ELSE d

\* the worker answers a request with a result carrying any such payload
workerSendsPayload ==
    /\ \E m \in toChild, d \in WirePayloads :
        /\ toChild' = toChild \ {m}
        /\ fromChild' = fromChild \cup
               {[type |-> <<m.type, "result">>, id |-> m.id, data |-> d,
                 error |-> ""]}
    /\ UNCHANGED <<msgId, pending, mbufs, payloads, inv, settled, lastReq,
                   errlog>>

\* child.on('message') for the result of a pending request (lines 17-32)
resultDelivered ==
    /\ \E msg \in fromChild :
        /\ msg.id \in DOMAIN pending
        /\ msg.type[2] = "result" /\ msg.type \in validChildMessageTypes
        /\ fromChild' = fromChild \ {msg}
        /\ pending' = Without(pending, msg.id)
        /\ settled' = settled @@
               (msg.id :> [how |-> "resolved", msg |-> msg,
                           value |-> Deserialize(msg.data), error |-> ""])
    /\ UNCHANGED <<msgId, toChild, mbufs, payloads, inv, lastReq, errlog>>

\* what the callback gets when it converts the Buffer b it was given.
\* While the overrides of lines 153-162 are installed every call throws,
\* whatever the arguments; with the original methods the bytes come out.
Encodings == {"utf8", "hex", "base64"}
SecurityError == [err |-> TRUE, value |-> 0]
BufferToString(b, enc) ==
    IF b.guarded THEN SecurityError ELSE [err |-> FALSE, value |-> b.data]
BufferToJSONOriginal(b) == [err |-> FALSE, value |-> b.data]
BufferToJSON(b) ==
    IF b.guarded THEN SecurityError ELSE [err |-> FALSE, value |-> b.data]
\* JSON.stringify(b) serialises what b.toJSON() returns
JSONStringify(b) == BufferToJSON(b)

\* the finally block of withDecryptedPassword (lines 174-190) applied to
\* the Buffer b after the callback ended with `outcome`: restore the
\* overridden methods and overwrite
CleanupOnSuccessOnly(b, outcome, v) ==
    IF outcome \in {"return", "asyncResolve"}
    THEN [b EXCEPT !.data = IF v THEN @ ELSE 0, !.fills = @ + 1,
                   !.guarded = FALSE]
    ELSE b
Cleanup(b, outcome, v) ==
    [b EXCEPT !.data = IF v THEN @ ELSE 0, !.fills = @ + 1,
              !.guarded = FALSE]

\* the pending entry a message settles: this.pending.get(msg.id) (line 18)
PendingKeyOldest(msg) ==
    IF DOMAIN pending = {} THEN msg.id
    ELSE CHOOSE k \in DOMAIN pending : \A j \in DOMAIN pending : k <= j
PendingKey(msg) == msg.id

OutcomeSwallowed(cb) == "returned"
Outcome(cb) == IF cb \in {"return", "asyncResolve"} THEN "returned"
               ELSE "threw"

\* withDecryptedPassword resumed with the value `data` its request resolved
\* with (lines 150-190); heap is mbufs with the Buffer built from data, if any
WdpResume(i, id, data, heap, v) ==
    IF data.kind = "undefined"
    THEN \* passwordBuffer.toString on undefined: TypeError before the try
         /\ inv' = [inv EXCEPT ![i].pc = "failed", ![i].outcome = "TypeError"]
         /\ mbufs' = heap
    ELSE IF inv[i].cb \in {"asyncResolve", "asyncReject"}
    THEN \* the callback returned a promise that is still pending
         /\ inv' = [inv EXCEPT ![i].pc = "callback"]
         /\ mbufs' = IF data.kind = "Buffer"
                     THEN [heap EXCEPT ![id].guarded = TRUE] ELSE heap
    ELSE /\ inv' = [inv EXCEPT ![i].pc = "done",
                               ![i].outcome = Outcome(inv[i].cb)]
         /\ mbufs' = IF data.kind = "Buffer"
                     THEN [heap EXCEPT ![id] = Cleanup(
                              [@ EXCEPT !.guarded = TRUE], inv[i].cb, v)]
                     ELSE heap

\* Buffer.from(data.data) (line 30): a new Buffer holding the bytes of the
\* array the message carried
BufferFromNothing(arr) == 0
BufferFrom(arr) == arr

\* new Error(msg.error?.message || 'Unknown error from child') (line 35):
\* the message of the Error the request is rejected with, for the message
\* e the worker put into the response ("" when it put none)
UnknownError == "Unknown error from child"
ErrorFromChildUnknown(e) == UnknownError
ErrorFromChild(e) == IF e = "" THEN UnknownError ELSE e

\* child.on('message') (lines 17-41), followed by the continuation of the
\* withDecryptedPassword invocation whose request the message settles
childMessage ==
    /\ \E msg \in fromChild, v \in FillDraws :
        LET key == PendingKey(msg)
            waiting == {i \in DOMAIN inv :
                          inv[i].pc = "awaitReq" /\ inv[i].reqId = key}
        IN
        /\ fromChild' = fromChild \ {msg}
        /\ IF key \notin DOMAIN pending
           THEN \* "Pending msg not found"
                /\ v = FALSE
                /\ errlog' = errlog \cup
                       {[text |-> "Pending msg not found", id |-> msg.id,
                         type |-> <<"", "">>]}
                /\ UNCHANGED <<pending, mbufs, payloads, inv, settled>>
           ELSE IF msg.type[2] = "result" /\ msg.type \in validChildMessageTypes
           THEN LET isBuf == msg.data.kind = "Buffer"
                    heap == IF isBuf
                            THEN mbufs @@
                                 (key :> [data |-> BufferFrom(msg.data.data),
                                          fills |-> 0, guarded |-> FALSE])
                            ELSE mbufs
                IN  /\ pending' = Without(pending, key)
                    /\ UNCHANGED errlog
                    /\ payloads' = IF isBuf
                                   THEN payloads @@
                                        (key :> [data |-> msg.data.data,
                                                 fills |-> 0])
                                   ELSE payloads
                    /\ settled' = settled @@
                                  (key :> [how |-> "resolved", msg |-> msg,
                                           value |-> msg.data,
                                           error |-> ""])
                    /\ IF waiting = {}
                       THEN v = FALSE /\ mbufs' = heap /\ UNCHANGED inv
                       ELSE /\ (~isBuf \/ inv[CHOOSE i \in waiting : TRUE].cb
                                   \in {"asyncResolve", "asyncReject"})
                               => v = FALSE
                            /\ WdpResume(CHOOSE i \in waiting : TRUE, key,
                                         msg.data, heap, v)
           ELSE IF msg.type[2] = "error"
           THEN /\ v = FALSE
                /\ pending' = Without(pending, key)
                /\ UNCHANGED errlog
                /\ settled' = settled @@
                              (key :> [how |-> "rejected", msg |-> msg,
                                       value |-> msg.data,
                                       error |-> ErrorFromChild(msg.error)])
                /\ inv' = [i \in DOMAIN inv |->
                             IF i \in waiting
                             THEN [inv[i] EXCEPT !.pc = "failed",
                                                 !.outcome =
                                                   ErrorFromChild(msg.error)]
                             ELSE inv[i]]
                /\ UNCHANGED <<mbufs, payloads>>
           ELSE \* "Unexpected message from child"
                /\ v = FALSE
                /\ errlog' = errlog \cup
                       {[text |-> "Unexpected message from child",
                         id |-> 0, type |-> msg.type]}
                /\ UNCHANGED <<pending, mbufs, payloads, inv, settled>>
    /\ UNCHANGED <<msgId, toChild, lastReq>>

\* the buffer the finally block of invocation i restores and overwrites:
\* `passwordBuffer` is a const local to the invocation (line 150), the
\* Buffer built from the response to its own request
PasswordBufferLatest(i) ==
    CHOOSE k \in DOMAIN mbufs : \A x \in DOMAIN mbufs : x <= k
PasswordBuffer(i) == inv[i].reqId

\* the promise an asynchronous callback returned settles; the await at
\* line 172 resumes and the finally block runs
callbackSettles ==
    /\ \E i \in DOMAIN inv, v \in FillDraws :
        /\ inv[i].pc = "callback"
        /\ inv' = [inv EXCEPT ![i].pc = "done",
                              ![i].outcome = Outcome(inv[i].cb)]
        /\ IF inv[i].reqId \in DOMAIN mbufs
           THEN mbufs' = [mbufs EXCEPT ![PasswordBuffer(i)] =
                            Cleanup(@, inv[i].cb, v)]
           ELSE v = FALSE /\ UNCHANGED mbufs
    /\ UNCHANGED <<msgId, pending, toChild, fromChild, payloads, settled,
                   lastReq, errlog>>

ShutdownMessage == "SecureHeapProcessManager is shutting down"

\* ChildProcess.kill(sig) of node:child_process: the signal is delivered
\* and `killed` becomes true when the child still has a process handle;
\* on a child that has exited the call returns false and changes nothing
Kill(c, sig) ==
    IF c.alive
    THEN [c EXCEPT !.killed = TRUE, !.signals = @ \cup {sig}]
    ELSE c

\* the test both `if`s of stop() make before they signal the child
\* (lines 217 and 223): this.child && !this.child.killed
MaySignal(c) == ~c.killed

\* the requests stop() rejects (lines 231-233): every entry of this.pending
RejectedByStopNone(p) == {}
RejectedByStop(p) == DOMAIN p

\* the body of stop() (lines 213-237).  `resumes` tells whether the
\* rejected promises' continuations get to run afterwards (they do not
\* when process.exit follows in the same handler).
StopBody(resumes) ==
    /\ child' = IF MaySignal(child)
                THEN [Kill(child, "SIGTERM") EXCEPT !.timer = @ + 1]
                ELSE child
    /\ settled' = settled @@
                  [k \in RejectedByStop(pending) |->
                     [how |-> "rejected",
                      msg |-> [type |-> <<"", "stop">>, id |-> k,
                               data |-> [kind |-> "undefined", data |-> 0],
                               error |-> ""],
                      value |-> [kind |-> "undefined", data |-> 0],
                      error |-> ShutdownMessage]]
    /\ pending' = <<>>
    /\ inv' = [i \in DOMAIN inv |->
                 IF /\ resumes
                    /\ inv[i].pc = "awaitReq"
                    /\ inv[i].reqId \in RejectedByStop(pending)
                 THEN [inv[i] EXCEPT !.pc = "failed",
                                     !.outcome = ShutdownMessage]
                 ELSE inv[i]]
    /\ stopTick' = ~stopTick

\* stop() called by the application
stop ==
    /\ proc = "running"
    /\ StopBody(TRUE)
    /\ UNCHANGED <<msgId, toChild, fromChild, mbufs, payloads, lastReq,
                   errlog, proc>>

\* the callback stop() gave to setTimeout(..., 5000) runs (lines 222-227)
graceTimer ==
    /\ proc = "running"
    /\ child.timer > 0
    /\ child' = IF MaySignal(child)
                THEN Kill([child EXCEPT !.timer = @ - 1], "SIGKILL")
                ELSE [child EXCEPT !.timer = @ - 1]
    /\ UNCHANGED <<msgId, pending, toChild, fromChild, mbufs, payloads, inv,
                   settled, lastReq, errlog, proc, stopTick>>

\* the worker process ends: its own SIGTERM handler runs shutdown() and
\* process.exit(0) (src/secure-heap-secret-manager.js lines 26-35), or
\* SIGKILL ends it.  When, after SIGTERM, is not the manager's to decide.
childExit ==
    /\ child.alive
    /\ child.signals # {}
    /\ child' = [child EXCEPT !.alive = FALSE]
    /\ UNCHANGED <<msgId, pending, toChild, fromChild, mbufs, payloads, inv,
                   settled, lastReq, errlog, proc, stopTick>>

\* shutdownHandler (lines 197-205): SIGINT, SIGTERM or SIGHUP reaches the
\* manager-side process; stop() runs, then process.exit(0)
ShutdownSignals == {"SIGINT", "SIGTERM", "SIGHUP"}

shutdownHandler ==
    /\ proc = "running"
    /\ \E sig \in ShutdownSignals : StopBody(FALSE)
    /\ proc' = "exited"
    /\ UNCHANGED <<msgId, toChild, fromChild, mbufs, payloads, lastReq,
                   errlog>>

\* ------------------------------------------------------------- the worker
\* The worker that serves SecureHeapProcessManager: its message handler
\* looks up the request type, runs the SecureHeapSecretManager operation
\* and sends a result or an error tagged with the request's id.  Here
\* for a getDecryptedPassword request: the decrypted Buffer goes out as
\* the response's data, and the response is handed to process.send with
\* a completion callback.
workerGetDecryptedPassword ==
    /\ \E m \in toChild :
        /\ m.type = "getDecryptedPassword"
        /\ getDecryptedPassword
        /\ toChild' = toChild \ {m}
        /\ IF lastOp'.err = "none"
           THEN /\ fromChild' = fromChild \cup
                      {[type |-> <<m.type, "result">>, id |-> m.id,
                        data |-> [kind |-> "Buffer",
                                  data |-> bufs'[nextBuf'].data],
                        error |-> ""]}
                /\ wsend' = wsend \cup {[id |-> m.id, buf |-> nextBuf']}
           ELSE /\ fromChild' = fromChild \cup
                      {[type |-> <<m.type, "error">>, id |-> m.id,
                        data |-> [kind |-> "undefined", data |-> 0],
                        error |-> lastOp'.err]}
                /\ wsend' = wsend \cup {[id |-> m.id, buf |-> 0]}
    /\ UNCHANGED <<msgId, pending, mbufs, payloads, inv, settled, lastReq,
                   errlog,
                   lifeVars>>

\* a response carrying the worker's Buffer b has been handed to
\* process.send and its completion callback has not run
SendOutstanding(b) == \E s \in wsend : s.buf = b

\* what the completion callback of process.send does to the worker's
\* decrypted Buffer (README lines 503-509): crypto.randomFillSync
SendDoneFillSkip(b, v) == b
SendDoneFill(b, v) == RandomFillSync(b, v)

\* the completion callback of process.send runs: the transmission of the
\* response is complete.  A decrypted Buffer the response carried is
\* overwritten and taken out of tracking.
workerSendDone ==
    /\ \E s \in wsend, v \in FillDraws :
        /\ wsend' = wsend \ {s}
        /\ IF s.buf # 0
           THEN /\ bufs' = [bufs EXCEPT ![s.buf] = SendDoneFill(@, v)]
                /\ activeBuffers' = ActiveBuffersDelete(activeBuffers, s.buf)
                /\ deregistered' =
                       deregistered \cup ({s.buf} \cap activeBuffers)
                /\ lastOp' = Op("removeFromTracking", "none")
           ELSE /\ v = FALSE
                /\ UNCHANGED <<bufs, activeBuffers, deregistered, lastOp>>
    /\ UNCHANGED <<rsaPrivateKey, rsaPublicKey, encryptedPassword, isShutdown,
                   secureHeapAllocationBaseline, nextBuf, encBuf, heapUsed,
                   keysMade, gsk, rip, decrypted, pmVars>>

\* ---------------------------------------------------------- specifications
Init == SMInit /\ PMInit

Next ==
    \/ (shutdown /\ UNCHANGED <<pmVars, decrypted, wsend>>)
    \/ (getSecureHeapUsage /\ UNCHANGED <<pmVars, decrypted, wsend>>)
    \/ (generateSecureKeypair /\ UNCHANGED <<pmVars, decrypted, wsend>>)
    \/ (generateSecureKeypairResume1 /\ UNCHANGED <<pmVars, decrypted, wsend>>)
    \/ (generateSecureKeypairResume2 /\ UNCHANGED <<pmVars, decrypted, wsend>>)
    \/ (verifyExpectedAllocation /\ UNCHANGED <<pmVars, decrypted, wsend>>)
    \/ (readInPassword /\ UNCHANGED <<pmVars, decrypted, wsend>>)
    \/ (readInRejected /\ UNCHANGED <<pmVars, decrypted, wsend>>)
    \/ (readInResolved /\ UNCHANGED <<pmVars, decrypted, wsend>>)
    \/ (getDecryptedPassword /\ UNCHANGED <<pmVars, wsend>>)
    \/ (removeFromTracking /\ UNCHANGED <<pmVars, decrypted, wsend>>)
    \/ (callerSanitize /\ UNCHANGED <<pmVars, decrypted, wsend>>)

Spec == Init /\ [][Next]_vars

NextPM ==
    \/ (handleRequest /\ UNCHANGED <<smVars, lifeVars>>)
    \/ (withDecryptedPassword /\ UNCHANGED <<smVars, lifeVars>>)
    \/ (workerRespond /\ UNCHANGED <<smVars, lifeVars>>)
    \/ (childMessage /\ UNCHANGED <<smVars, lifeVars>>)
    \/ (callbackSettles /\ UNCHANGED <<smVars, lifeVars>>)

SpecPM == Init /\ [][NextPM]_vars

\* the allocation check of the secret manager, started in a process whose
\* secure heap already holds 0..MaxUsed0 bytes
AllocInit ==
    /\ rsaPrivateKey = NULL
    /\ rsaPublicKey = NULL
    /\ encryptedPassword = NULL
    /\ isShutdown = FALSE
    /\ activeBuffers = {}
    /\ secureHeapAllocationBaseline = Undefined
    /\ bufs = [b \in BufIds |-> FreeBuf]
    /\ nextBuf = 0
    /\ encBuf = FreeBuf
    /\ heapUsed \in 0..MaxUsed0
    /\ keysMade = 0
    /\ gsk = [pc |-> "idle", before |-> 0]
    /\ rip = [pc |-> "idle"]
    /\ lastOp = Op("constructor", "none")
    /\ deregistered = {}
    /\ decrypted = <<>>
    /\ wsend = {}
    /\ PMInit

NextAlloc ==
    \/ (shutdown /\ UNCHANGED <<pmVars, decrypted, wsend>>)
    \/ (getSecureHeapUsage /\ UNCHANGED <<pmVars, decrypted, wsend>>)
    \/ (generateSecureKeypair /\ UNCHANGED <<pmVars, decrypted, wsend>>)
    \/ (generateSecureKeypairResume1 /\ UNCHANGED <<pmVars, decrypted, wsend>>)
    \/ (generateSecureKeypairResume2 /\ UNCHANGED <<pmVars, decrypted, wsend>>)
    \/ (verifyExpectedAllocation /\ UNCHANGED <<pmVars, decrypted, wsend>>)

SpecAlloc == AllocInit /\ [][NextAlloc]_vars

\* the allocation check when the key's allocation can leave the secure
\* heap, from any initial usage
NextEvict ==
    \/ (getSecureHeapUsage /\ UNCHANGED <<pmVars, decrypted, wsend>>)
    \/ (generateSecureKeypair /\ UNCHANGED <<pmVars, decrypted, wsend>>)
    \/ (generateSecureKeypairResume1 /\ UNCHANGED <<pmVars, decrypted, wsend>>)
    \/ (generateSecureKeypairResume2 /\ UNCHANGED <<pmVars, decrypted, wsend>>)
    \/ (keyEvicted /\ UNCHANGED <<pmVars, decrypted, wsend>>)
    \/ (verifyExpectedAllocation /\ UNCHANGED <<pmVars, decrypted, wsend>>)
    \/ (readInPassword /\ UNCHANGED <<pmVars, decrypted, wsend>>)
    \/ (readInResolved /\ UNCHANGED <<pmVars, decrypted, wsend>>)

SpecEvict == AllocInit /\ [][NextEvict]_vars

\* the secret manager where generateSecureKeypair may be called again
\* after a key pair exists and a password is stored
NextRegen ==
    \/ (generateSecureKeypairAgain /\ UNCHANGED <<pmVars, decrypted, wsend>>)
    \/ (generateSecureKeypairResume1 /\ UNCHANGED <<pmVars, decrypted, wsend>>)
    \/ (generateSecureKeypairResume2 /\ UNCHANGED <<pmVars, decrypted, wsend>>)
    \/ (readInPassword /\ UNCHANGED <<pmVars, decrypted, wsend>>)
    \/ (readInResolved /\ UNCHANGED <<pmVars, decrypted, wsend>>)
    \/ (getDecryptedPassword /\ UNCHANGED <<pmVars, wsend>>)
    \/ (shutdown /\ UNCHANGED <<pmVars, decrypted, wsend>>)

SpecRegen == Init /\ [][NextRegen]_vars

\* repeated decryption: a manager that has generated its key pair and
\* stored the encryption of a password p (generateSecureKeypair, then
\* readInPassword, have completed), in a process with room for MaxDecs
\* decrypted Buffers
DecSMInit ==
    /\ rsaPrivateKey = 1
    /\ rsaPublicKey = 1
    /\ encryptedPassword = EncRef
    /\ isShutdown = FALSE
    /\ activeBuffers = {}
    /\ secureHeapAllocationBaseline = 1
    /\ bufs = [b \in 1..MaxDecs |-> FreeBuf]
    /\ nextBuf = 0
    /\ \E p \in Plaintexts :
          /\ encBuf = [kind |-> "cipher", data |-> p, key |-> 1, fills |-> 0]
          /\ lastOp = [op |-> "readInPassword:resume", err |-> "none",
                       sep |-> [called |-> TRUE, shutdown |-> FALSE,
                                err |-> "none", isBuffer |-> TRUE,
                                data |-> p, before |-> 0,
                                after |-> 1, dataAfter |-> 0, final |-> 1]]
    /\ heapUsed = 1
    /\ keysMade = 1
    /\ gsk = [pc |-> "idle", before |-> 0]
    /\ rip = [pc |-> "idle"]
    /\ deregistered = {}
    /\ decrypted = <<>>
    /\ wsend = {}

DecInit == DecSMInit /\ PMInit

NextDec ==
    \/ (getDecryptedPassword /\ UNCHANGED <<pmVars, wsend>>)
    \/ (callerSanitize /\ UNCHANGED <<pmVars, decrypted, wsend>>)
    \/ (removeFromTracking /\ UNCHANGED <<pmVars, decrypted, wsend>>)
    \/ (readInPassword /\ UNCHANGED <<pmVars, decrypted, wsend>>)
    \/ (readInRejected /\ UNCHANGED <<pmVars, decrypted, wsend>>)
    \/ (readInResolved /\ UNCHANGED <<pmVars, decrypted, wsend>>)
    \/ (shutdown /\ UNCHANGED <<pmVars, decrypted, wsend>>)

SpecDec == DecInit /\ [][NextDec]_vars

\* #setEncryptedPassword called with Buffers and with other values, on a
\* manager in any stage of its life
NextEnc ==
    \/ (setEncryptedPassword /\ UNCHANGED <<pmVars, decrypted, wsend>>)
    \/ (generateSecureKeypair /\ UNCHANGED <<pmVars, decrypted, wsend>>)
    \/ (generateSecureKeypairResume1 /\ UNCHANGED <<pmVars, decrypted, wsend>>)
    \/ (generateSecureKeypairResume2 /\ UNCHANGED <<pmVars, decrypted, wsend>>)
    \/ (getDecryptedPassword /\ UNCHANGED <<pmVars, wsend>>)
    \/ (shutdown /\ UNCHANGED <<pmVars, decrypted, wsend>>)

SpecEnc == Init /\ [][NextEnc]_vars

\* the secret manager where a step of shutdown() may throw
NextFault ==
    \/ (generateSecureKeypair /\ UNCHANGED <<pmVars, decrypted, wsend>>)
    \/ (generateSecureKeypairResume1 /\ UNCHANGED <<pmVars, decrypted, wsend>>)
    \/ (generateSecureKeypairResume2 /\ UNCHANGED <<pmVars, decrypted, wsend>>)
    \/ (readInPassword /\ UNCHANGED <<pmVars, decrypted, wsend>>)
    \/ (readInResolved /\ UNCHANGED <<pmVars, decrypted, wsend>>)
    \/ (getDecryptedPassword /\ UNCHANGED <<pmVars, wsend>>)
    \/ (shutdown /\ UNCHANGED <<pmVars, decrypted, wsend>>)
    \/ (shutdownThrows /\ UNCHANGED <<pmVars, decrypted, wsend>>)

SpecFault == Init /\ [][NextFault]_vars

\* end to end: the process manager, the worker and the worker's secret
\* manager, which has generated its key pair and stored the encryption
\* of a 32-byte password.  withDecryptedPassword is called MaxSeq times,
\* each call after the one before has ended.
E2EInit == DecSMInit /\ PMInitFor(MaxSeq)

NoneInProgress == \A i \in DOMAIN inv : inv[i].pc \in {"idle", "done", "failed"}

\* 32 random bytes do not reproduce a given 32-byte password (they would
\* with probability 2^-256): in this scenario an overwritten Buffer holds
\* other bytes
FreshBytes ==
    /\ \A k \in DOMAIN mbufs : mbufs[k].fills >= 1 => mbufs[k].data = 0
    /\ \A b \in DOMAIN bufs : bufs[b].fills >= 1 => bufs[b].data = 0

NextE2E ==
    \/ (NoneInProgress /\ withDecryptedPassword
           /\ UNCHANGED <<smVars, lifeVars>>)
    \/ workerGetDecryptedPassword
    \/ (workerSendDone /\ FreshBytes')
    \/ (childMessage /\ UNCHANGED <<smVars, lifeVars>> /\ FreshBytes')
    \/ (callbackSettles /\ UNCHANGED <<smVars, lifeVars>> /\ FreshBytes')

SpecE2E == E2EInit /\ [][NextE2E]_vars

\* the same under the scheduling of the two event loops: a message in the
\* channel is delivered, a completion callback is called, a request is
\* handled
SpecE2EFair ==
    /\ SpecE2E
    /\ WF_vars(workerGetDecryptedPassword)
    /\ WF_vars(workerSendDone /\ FreshBytes')
    /\ WF_vars(childMessage /\ UNCHANGED <<smVars, lifeVars>> /\ FreshBytes')

\* requests issued with handleRequest, their responses, and stop()
NextStop ==
    \/ (handleRequest /\ UNCHANGED <<smVars, lifeVars>>)
    \/ (workerRespond /\ UNCHANGED <<smVars, lifeVars>>)
    \/ (childMessage /\ UNCHANGED <<smVars, lifeVars>>)
    \/ (stop /\ UNCHANGED smVars)

SpecStop == Init /\ [][NextStop]_vars

\* the process manager with the life cycle of both processes: the grace
\* timer, the worker's exit and the manager-side signal handlers.  A
\* process that has exited takes no step.
NextLife ==
    \/ (proc = "running" /\ withDecryptedPassword
           /\ UNCHANGED <<smVars, lifeVars>>)
    \/ (proc = "running" /\ child.alive /\ workerRespond
           /\ UNCHANGED <<smVars, lifeVars>>)
    \/ (proc = "running" /\ childMessage /\ UNCHANGED <<smVars, lifeVars>>)
    \/ (proc = "running" /\ callbackSettles
           /\ UNCHANGED <<smVars, lifeVars>>)
    \/ (stop /\ UNCHANGED smVars)
    \/ (graceTimer /\ UNCHANGED smVars)
    \/ (childExit /\ UNCHANGED smVars)
    \/ (shutdownHandler /\ UNCHANGED smVars)

SpecLife == Init /\ [][NextLife]_vars

\* requests issued while the worker process exists, their responses,
\* stop() and the worker's exit.  A worker that has exited answers nothing.
NextSettle ==
    \/ (child.alive /\ handleRequest /\ UNCHANGED <<smVars, lifeVars>>)
    \/ (child.alive /\ workerRespond /\ UNCHANGED <<smVars, lifeVars>>)
    \/ (childMessage /\ UNCHANGED <<smVars, lifeVars>>)
    \/ (stop /\ UNCHANGED smVars)
    \/ (childExit /\ UNCHANGED smVars)

SpecSettle == Init /\ [][NextSettle]_vars

\* the same where a worker that runs answers the requests it received, a
\* response in the channel is delivered to the 'message' handler, and the
\* application does call stop(): a first call happens (child.killed tells
\* that stop() has signalled the worker)
SpecSettleFair ==
    /\ SpecSettle
    /\ WF_vars(child.alive /\ workerRespond /\ UNCHANGED <<smVars, lifeVars>>)
    /\ WF_vars(childMessage /\ UNCHANGED <<smVars, lifeVars>>)
    /\ WF_vars(~child.killed /\ stop /\ UNCHANGED smVars)

\* the 'message' handler fed with messages of any type and id, between
\* requests and calls of stop() that find requests pending
NextStray ==
    \/ (handleRequest /\ UNCHANGED <<smVars, lifeVars>>)
    \/ (anyMessage /\ UNCHANGED <<smVars, lifeVars>>)
    \/ (childMessage /\ UNCHANGED <<smVars, lifeVars>>)
    \/ (pending # <<>> /\ stop /\ UNCHANGED smVars)

SpecStray == Init /\ [][NextStray]_vars

\* requests whose results carry payloads of every shape
NextPayload ==
    \/ (handleRequest /\ UNCHANGED <<smVars, lifeVars>>)
    \/ (workerSendsPayload /\ UNCHANGED <<smVars, lifeVars>>)
    \/ (resultDelivered /\ UNCHANGED <<smVars, lifeVars>>)

SpecPayload == Init /\ [][NextPayload]_vars

\* the worker of src/secure-worker.js on its own, handed requests of the
\* types it handles and of a type it does not
NextWorker ==
    \/ (requestArrives /\ UNCHANGED <<smVars, lifeVars>>)
    \/ (workerOnMessage /\ UNCHANGED <<smVars, lifeVars>>)

SpecWorker == Init /\ [][NextWorker]_vars

\* withDecryptedPassword invocations that overlap: one more invocation
\* than the other specifications run, each with its own request
ConcInit == SMInit /\ PMInitFor(MaxInv + 1)

NextConc ==
    \/ (withDecryptedPassword /\ UNCHANGED <<smVars, lifeVars>>)
    \/ (workerRespond /\ UNCHANGED <<smVars, lifeVars>>)
    \/ (childMessage /\ UNCHANGED <<smVars, lifeVars>>)
    \/ (callbackSettles /\ UNCHANGED <<smVars, lifeVars>>)

SpecConc == ConcInit /\ [][NextConc]_vars

\* ------------------------------------------------------------------ claims

\* C1: a withDecryptedPassword invocation whose request resolved with a
\* Buffer overwrites that Buffer exactly once, whether the callback
\* returns, throws, or returns a promise that rejects later, and never
\* while the callback (or its promise) has not settled.
C1_GuardedBufferOverwrittenOnce ==
    \A i \in 1..MaxInv :
        inv[i].reqId \in DOMAIN mbufs =>
            /\ inv[i].pc = "done" => mbufs[inv[i].reqId].fills = 1
            /\ inv[i].pc \in {"awaitReq", "callback"}
                   => mbufs[inv[i].reqId].fills = 0
            /\ inv[i].pc \in {"done", "callback"}

\* C1 witness: an invocation whose callback returned a promise that
\* rejected has ended, its Buffer overwritten once.
C1_Witness ==
    \E i \in 1..MaxInv :
        /\ inv[i].pc = "done" /\ inv[i].cb = "asyncReject"
        /\ inv[i].outcome = "threw"
        /\ inv[i].reqId \in DOMAIN mbufs
        /\ mbufs[inv[i].reqId].fills = 1

\* C2: when withDecryptedPassword has returned or re-raised, every copy of
\* the plaintext a getDecryptedPassword result brought into the manager-side
\* process (the array carried by the message and the Buffer built from it)
\* has been overwritten.
C2_AllCopiesOverwritten ==
    \A i \in 1..MaxInv :
        (inv[i].pc = "done" /\ inv[i].reqId \in DOMAIN payloads) =>
            /\ mbufs[inv[i].reqId].fills >= 1
            /\ payloads[inv[i].reqId].fills >= 1

\* C9: whatever requests are outstanding and in whatever order responses
\* arrive, a request is settled by the message carrying its own id, with
\* that message's data or error.
C9_SettledByOwnResponse ==
    \A id \in DOMAIN settled :
        /\ settled[id].msg.id = id
        /\ settled[id].how = "resolved" => settled[id].value = settled[id].msg.data
        /\ (settled[id].how = "rejected" /\ settled[id].msg.type[2] = "error")
               => settled[id].error = settled[id].msg.error

\* C9 witness: a later request was resolved by its response while an
\* earlier one was still pending.
C9_Witness ==
    \E a \in DOMAIN pending, b \in DOMAIN settled :
        /\ a < b
        /\ settled[b].how = "resolved"
        /\ settled[b].msg.id = b

\* C10: handleRequest with an unsupported type rejects and does nothing
\* else: msgId, the pending table and the messages to the worker stay as
\* they were.
C10_InvalidTypeNoEffect ==
    [][(lastReq' # lastReq /\ lastReq'.type \notin validRequests) =>
           (lastReq'.rejected /\ UNCHANGED <<msgId, pending, toChild>>)]_vars

\* C10 witness: an unsupported type was rejected while another request was
\* pending.
C10_Witness ==
    /\ lastReq.type = "bogusRequest"
    /\ lastReq.rejected
    /\ msgId > 0
    /\ pending # <<>>
    /\ \A m \in toChild : m.type \in validRequests

\* C3: whenever #setEncryptedPassword runs on a manager that is not shut
\* down, the input buffer has been overwritten when it returns or raises,
\* on the success path and on the failure path of crypto.publicEncrypt.
C3_EncryptOverwritesInput ==
    (lastOp.sep.called /\ ~lastOp.sep.shutdown) =>
        /\ lastOp.sep.err \in {"none", "Encrypt"}
        /\ lastOp.sep.after > lastOp.sep.before

\* C3 witness: the encryption failed (no key pair yet) and the buffer was
\* overwritten all the same.
C3_Witness ==
    /\ lastOp.sep.called /\ ~lastOp.sep.shutdown
    /\ lastOp.sep.err = "Encrypt"
    /\ lastOp.sep.after > lastOp.sep.before
    /\ rsaPublicKey = NULL

\* C4: a buffer returned by getDecryptedPassword is in activeBuffers when
\* it is handed over, and a caller never holds a decrypted buffer that is
\* neither overwritten nor registered, unless it was passed to
\* removeFromTracking.
C4_ReturnedBufferRegistered ==
    /\ (lastOp.op = "getDecryptedPassword" /\ lastOp.err = "none")
           => nextBuf \in activeBuffers
    /\ \A b \in held :
           (bufs[b].fills = 0 /\ b \notin deregistered) => b \in activeBuffers

\* C4 witness: getDecryptedPassword has just returned a plaintext buffer.
C4_Witness ==
    /\ lastOp.op = "getDecryptedPassword" /\ lastOp.err = "none"
    /\ nextBuf \in held
    /\ bufs[nextBuf].fills = 0
    /\ bufs[nextBuf].data \in Plaintexts

\* C5: every buffer that was registered and is no longer in activeBuffers
\* has been overwritten: the buffers getDecryptedPassword registered, and
\* the passwordBuffer readInPassword registered and removed.
C5_RemovedOnlyAfterOverwrite ==
    /\ \A b \in held \ activeBuffers : bufs[b].fills >= 1
    /\ lastOp.sep.called => lastOp.sep.final >= 1

\* C6: after shutdown() returns, from whatever state, the encrypted
\* password is overwritten and its reference cleared, every buffer is out
\* of the registry and overwritten unless removeFromTracking took it out,
\* both key references are null and isShutDown() is true.
C6_ShutdownPostcondition ==
    lastOp.op = "shutdown" =>
        /\ encryptedPassword = NULL
        /\ encBuf.kind = "cipher" => encBuf.fills >= 1
        /\ activeBuffers = {}
        /\ \A b \in held \ deregistered : bufs[b].fills >= 1
        /\ rsaPrivateKey = NULL
        /\ rsaPublicKey = NULL
        /\ isShutdown

\* C7: on a shut-down manager a call of getSecureHeapUsage,
\* generateSecureKeypair, verifyExpectedAllocation, readInPassword or
\* getDecryptedPassword fails with the shutdown error and changes nothing.
CallOps == {"getSecureHeapUsage", "generateSecureKeypair",
            "verifyExpectedAllocation", "readInPassword",
            "getDecryptedPassword"}

C7_CallsFailAfterShutdown ==
    [][(isShutdown /\ lastOp'.op \in CallOps) =>
           (lastOp'.err = "Shutdown" /\ UNCHANGED <<smFields, smProc>>)]_vars

\* C7 witness: getDecryptedPassword was called on a shut-down manager and
\* failed with the shutdown error.
C7_Witness ==
    /\ isShutdown
    /\ lastOp.op = "getDecryptedPassword"
    /\ lastOp.err = "Shutdown"

\* C8: once the manager is shut down it stays shut down, and no later step
\* (a resumed generateSecureKeypair or readInPassword included) puts a key
\* reference, an encrypted password or a registered buffer back.
C8_ShutdownTerminal ==
    [][isShutdown =>
           /\ isShutdown'
           /\ rsaPrivateKey' = NULL
           /\ rsaPublicKey' = NULL
           /\ encryptedPassword' = NULL
           /\ activeBuffers' = {}]_vars

\* C11: every stop() rejects each request that is pending when it is
\* called with the shutdown error and leaves the pending table empty; a
\* request it rejects had not been settled before, and what was settled
\* before stays as it was (so each is rejected once).
C11_StopRejectsAllPending ==
    [][stopTick' # stopTick =>
           /\ pending' = <<>>
           /\ \A k \in DOMAIN pending :
                  /\ k \notin DOMAIN settled
                  /\ k \in DOMAIN settled'
                  /\ settled'[k].how = "rejected"
                  /\ settled'[k].error = ShutdownMessage
           /\ \A k \in DOMAIN settled : settled'[k] = settled[k]]_vars

\* C11 witness: stop() ran with two requests pending; both were rejected
\* by it and the table is empty.
C11_Witness ==
    /\ pending = <<>>
    /\ \E a, b \in DOMAIN settled :
          /\ a # b
          /\ settled[a].msg.type = <<"", "stop">>
          /\ settled[b].msg.type = <<"", "stop">>
          /\ settled[a].error = ShutdownMessage
          /\ settled[b].error = ShutdownMessage

\* C12: when the timer stop() started expires, a worker that has not
\* exited is sent SIGKILL, and a worker that has exited is sent nothing.
C12_ForceKillAfterGrace ==
    [][child'.timer < child.timer =>
           IF child.alive
           THEN "SIGKILL" \in child'.signals
           ELSE child'.signals = child.signals]_vars

\* C13: when the manager-side process has exited on SIGINT, SIGTERM or
\* SIGHUP, the Buffer of every withDecryptedPassword invocation whose
\* callback was in progress has been overwritten, and the worker has been
\* sent SIGTERM.
C13_SignalSanitizesGuardedBuffer ==
    proc = "exited" =>
        /\ \A i \in 1..MaxInv :
               (inv[i].pc = "callback" /\ inv[i].reqId \in DOMAIN mbufs)
                   => mbufs[inv[i].reqId].fills >= 1
        /\ "SIGTERM" \in child.signals

\* C14: while the callback of withDecryptedPassword is in progress,
\* toString (with any argument), toJSON and JSON.stringify on its Buffer
\* fail with the security error whatever the Buffer holds; and a Buffer
\* handed to a callback on which a conversion succeeds has been
\* overwritten (the methods come back in the step that overwrites it).
C14_GuardedConversionsFail ==
    \A i \in 1..MaxInv :
        (inv[i].pc \in {"callback", "done"} /\ inv[i].reqId \in DOMAIN mbufs)
        => LET b == mbufs[inv[i].reqId]
               failing == /\ \A enc \in Encodings :
                                BufferToString(b, enc) = SecurityError
                          /\ BufferToJSON(b) = SecurityError
                          /\ JSONStringify(b) = SecurityError
           IN  /\ inv[i].pc = "callback" => failing
               /\ ~failing => b.fills >= 1

\* C14 witness: an asynchronous callback is suspended holding a guarded
\* Buffer with the plaintext in it.
C14_Witness ==
    \E i \in 1..MaxInv :
        /\ inv[i].pc = "callback"
        /\ inv[i].reqId \in DOMAIN mbufs
        /\ mbufs[inv[i].reqId].data \in Plaintexts
        /\ mbufs[inv[i].reqId].fills = 0
        /\ BufferToJSON(mbufs[inv[i].reqId]) = SecurityError

\* C15: verifyExpectedAllocation fails as long as no
\* generateSecureKeypair has completed successfully (the baseline is set
\* by a successful completion and by nothing else), and succeeds when it
\* is the step right after a successful completion, whatever the usage was
\* before the key pair and whatever positive amount it grew by.
C15_VerifyAfterGenerate ==
    [][/\ secureHeapAllocationBaseline' # secureHeapAllocationBaseline
           => (lastOp'.op = "generateSecureKeypair:resume2"
               /\ lastOp'.err = "none")
       /\ lastOp'.op = "verifyExpectedAllocation" =>
           /\ secureHeapAllocationBaseline = Undefined
                  => lastOp'.err # "none"
           /\ (lastOp.op = "generateSecureKeypair:resume2"
               /\ lastOp.err = "none") => lastOp'.err = "none"]_vars

\* C16: two successful getDecryptedPassword calls made against the same
\* stored ciphertext returned the same bytes, whatever happened to the
\* first Buffer in between, and returned different Buffer objects.
C16_DecryptDeterministic ==
    \A i, j \in DOMAIN decrypted :
        /\ decrypted[i].enc = decrypted[j].enc
               => decrypted[i].data = decrypted[j].data
        /\ i # j => decrypted[i].buf # decrypted[j].buf

\* C16 witness: the first Buffer was overwritten (its bytes changed), then
\* a second call returned the plaintext again in another Buffer.
C16_Witness ==
    /\ Len(decrypted) >= 2
    /\ decrypted[1].enc = decrypted[2].enc
    /\ bufs[decrypted[1].buf].fills = 1
    /\ bufs[decrypted[1].buf].data # decrypted[1].data
    /\ bufs[decrypted[2].buf].fills = 0
    /\ bufs[decrypted[2].buf].data = decrypted[1].data
    /\ decrypted[2].data \in Plaintexts

\* C17: whenever #setEncryptedPassword has run on a Buffer holding the
\* (non-empty) bytes b, the Buffer's content is different from b when the
\* method returns or raises.
C17_ContentDiffersAfterEncrypt ==
    lastOp.sep.called => lastOp.sep.dataAfter # lastOp.sep.data

C20_CompletesWithCallbackOutcome ==
    \A i \in DOMAIN inv :
        /\ inv[i].pc = "callback" => inv[i].outcome = "none"
        /\ inv[i].pc = "done" =>
               /\ inv[i].cb \in {"return", "asyncResolve"}
                      => inv[i].outcome = "returned"
               /\ inv[i].cb \in {"throw", "asyncReject"}
                      => inv[i].outcome = "threw"
               /\ inv[i].reqId \in DOMAIN mbufs
                      => mbufs[inv[i].reqId].fills >= 1

\* C20 witness: a callback threw synchronously; the invocation is
\* rejected and its Buffer, which held the plaintext, is overwritten.
C20_Witness ==
    \E i \in DOMAIN inv :
        /\ inv[i].pc = "done" /\ inv[i].cb = "throw"
        /\ inv[i].outcome = "threw"
        /\ inv[i].reqId \in DOMAIN payloads
        /\ payloads[inv[i].reqId].data \in Plaintexts
        /\ mbufs[inv[i].reqId].fills = 1

C22_AcceptedRequestSettles ==
    \A k \in 1..MaxMsgId :
        (k \in DOMAIN pending) ~> (k \in DOMAIN settled)

\* C23: the response the worker sends for a request whose handler threw
\* is an error message tagged with the request's type and id and carrying
\* the thrown error's message; when the manager side receives it while
\* request i is pending, it rejects request i, and no other, with an
\* Error whose message is the one the worker sent.
C23_WorkerErrorPropagates ==
    [][/\ \A m \in toChild \ toChild' : \A x \in fromChild' \ fromChild :
              x.id = m.id /\ x.type[1] = m.type
              /\ (x.type[2] = "error" => x.error \in ErrorMessages)
       /\ \A msg \in fromChild \ fromChild' :
              (msg.type[2] = "error" /\ msg.id \in DOMAIN pending) =>
                  /\ pending' = Without(pending, msg.id)
                  /\ msg.id \notin DOMAIN settled
                  /\ DOMAIN settled' = DOMAIN settled \cup {msg.id}
                  /\ \A k \in DOMAIN settled : settled'[k] = settled[k]
                  /\ settled'[msg.id].how = "rejected"
                  /\ settled'[msg.id].error = msg.error]_vars

C23_Witness ==
    \E k \in DOMAIN settled :
        /\ settled[k].how = "rejected"
        /\ settled[k].msg.type = <<"verifyExpectedAllocation", "error">>
        /\ settled[k].msg.id = k
        /\ settled[k].error \in ErrorMessages
        /\ DOMAIN pending # {}

\* C24: a message whose id matches no pending request (an id never
\* issued, a request already settled, a request stop() rejected) is
\* discarded: the handler logs it and changes nothing else - no promise
\* settles, the pending table and msgId stay as they are.  A message that
\* arrives after such a discard for a request that is pending, as a valid
\* result or an error, still settles that request.
C24_UnknownIdDiscarded ==
    [][\A msg \in fromChild \ fromChild' :
          /\ msg.id \notin DOMAIN pending =>
                /\ UNCHANGED <<pending, msgId, settled, inv, mbufs, payloads,
                               toChild, lastReq>>
                /\ errlog' = errlog \cup
                       {[text |-> "Pending msg not found", id |-> msg.id,
                         type |-> <<"", "">>]}
          /\ ( /\ \E e \in errlog : e.text = "Pending msg not found"
               /\ msg.id \in DOMAIN pending
               /\ \/ msg.type \in validChildMessageTypes
                  \/ msg.type[2] = "error" ) =>
                /\ pending' = Without(pending, msg.id)
                /\ msg.id \in DOMAIN settled'
                /\ settled'[msg.id].msg = msg]_vars

C24_Witness ==
    /\ \E e \in errlog :
          /\ e.text = "Pending msg not found"
          /\ e.id \in DOMAIN settled
    /\ \E msg \in fromChild :
          /\ msg.id \in DOMAIN pending
          /\ msg.type \in validChildMessageTypes

\* C25: a result whose payload has the form {type: 'Buffer', data: [...]}
\* is delivered to the requester as a Buffer of the same length holding
\* the same bytes in the same order; a payload of any other shape is
\* delivered as it arrived.
C25_BufferPayloadReconstructed ==
    \A k \in DOMAIN settled :
        settled[k].how = "resolved" =>
            LET d == settled[k].msg.data
                v == settled[k].value
            IN  IF d.type = "Buffer" /\ d.isArray
                THEN /\ v.type = "NativeBuffer"
                     /\ Len(v.data) = Len(d.data)
                     /\ \A i \in 1..Len(d.data) : v.data[i] = d.data[i]
                ELSE v = d

C25_Witness ==
    /\ \E k \in DOMAIN settled :
          /\ settled[k].msg.data.type = "Buffer"
          /\ settled[k].msg.data.isArray
          /\ settled[k].msg.data.data = <<0, 255>>
          /\ settled[k].value.type = "NativeBuffer"
    /\ \E k \in DOMAIN settled :
          /\ settled[k].msg.data.type = "Buffer"
          /\ ~settled[k].msg.data.isArray
          /\ settled[k].value = settled[k].msg.data

\* C26: a pending request of type T with id i is resolved only by a
\* message of type "T:result" with id i and, unless stop() rejects it,
\* rejected only by a message of type "T:error" with id i; a result or an
\* error of another request type that carries id i does not settle it.
C26_SettledOnlyByMatchingType ==
    [][\A k \in DOMAIN pending :
          (k \in DOMAIN settled' /\ stopTick' = stopTick) =>
              /\ settled'[k].msg.id = k
              /\ settled'[k].msg.type[1] = pending[k]
              /\ settled'[k].how = "resolved" =>
                     settled'[k].msg.type[2] = "result"
              /\ settled'[k].how = "rejected" =>
                     settled'[k].msg.type[2] = "error"]_vars

\* C27: in every reachable state this.pending holds exactly the ids of
\* the requests sent and not yet settled, each of them in 1..msgId; a
\* request that has settled stays settled as it was (a second response
\* with its id settles nothing); and an entry leaves the table in the very
\* step in which its promise settles.
C27_PendingTable ==
    /\ [](/\ DOMAIN pending \subseteq 1..msgId
          /\ DOMAIN settled \subseteq 1..msgId
          /\ DOMAIN pending = (1..msgId) \ DOMAIN settled)
    /\ [][/\ \A k \in DOMAIN settled :
                k \in DOMAIN settled' /\ settled'[k] = settled[k]
          /\ DOMAIN settled' \ DOMAIN settled
                = DOMAIN pending \ DOMAIN pending'
          /\ \A k \in DOMAIN pending' \ DOMAIN pending :
                k = msgId' /\ msgId' = msgId + 1]_vars

C27_Witness ==
    /\ msgId = 2
    /\ DOMAIN pending = {2}
    /\ settled[1].how = "resolved"
    /\ \E e \in errlog : e.text = "Pending msg not found" /\ e.id = 1
    /\ \E msg \in fromChild : msg.id = 1

\* C28: shutdown() on a manager that is already shut down changes no
\* field of the manager and overwrites no Buffer: the state after a
\* second or later call is the state before it.
C28_ShutdownIdempotent ==
    [][(isShutdown /\ lastOp'.op = "shutdown") =>
           UNCHANGED <<smFields, smProc, deregistered, decrypted>>]_vars

C28_Witness ==
    /\ lastOp.op = "shutdown"
    /\ isShutdown
    /\ rsaPrivateKey # NULL
    /\ gsk.pc = "idle"

\* C29: when a cleanup step of shutdown() throws, the remaining steps
\* still run: every registered Buffer is overwritten, activeBuffers is
\* cleared, the key references are dropped and the manager is shut down.
C29_ShutdownCompletesAfterError ==
    [][(~isShutdown /\ lastOp'.op = "shutdown") =>
           /\ \A b \in activeBuffers : bufs'[b].fills = bufs[b].fills + 1
           /\ activeBuffers' = {}
           /\ rsaPrivateKey' = NULL
           /\ rsaPublicKey' = NULL
           /\ isShutdown']_vars

\* C30: after a successful generateSecureKeypair, when the secure-heap
\* usage has fallen back to the level it had before the key pair was
\* generated, the next verifyExpectedAllocation fails with the allocation
\* error, whatever that level was.
C30_EvictionDetected ==
    [][(lastOp.op = "keyEvicted" /\ lastOp'.op = "verifyExpectedAllocation")
           => lastOp'.err = "Allocation"]_vars

\* C31: generateSecureKeypair ends without an error exactly when the usage
\* measured after the key generation is greater than the usage measured
\* before it; it then stores after - before, a positive number, as the
\* baseline; when it fails (at the allocation test, or at #checkShutdown
\* on entry) the baseline stays as it was.
C31_GenerateSucceedsIffUsageGrew ==
    [][/\ (gsk.pc = "await2" /\ gsk'.pc = "idle") =>
             /\ lastOp'.op = "generateSecureKeypair:resume2"
             /\ (lastOp'.err = "none") <=> (heapUsed > gsk.before)
             /\ lastOp'.err = "none" =>
                    /\ secureHeapAllocationBaseline' = heapUsed - gsk.before
                    /\ secureHeapAllocationBaseline' > 0
             /\ lastOp'.err # "none" =>
                    /\ lastOp'.err = "Allocation"
                    /\ UNCHANGED secureHeapAllocationBaseline
       /\ (lastOp'.op = "generateSecureKeypair" /\ lastOp'.err # "none") =>
             UNCHANGED <<secureHeapAllocationBaseline, gsk>>]_vars

C31_Witness ==
    /\ lastOp.op = "generateSecureKeypair:resume2"
    /\ lastOp.err = "none"
    /\ secureHeapAllocationBaseline = 1
    /\ heapUsed = MaxUsed0 + 1

\* C32: the key pair is created at most once: no step replaces a key
\* pair the manager holds by another one (shutdown() may drop it), and
\* the private key held is always the partner of the public key under
\* which the stored encrypted password was made.
C32_KeyPairCreatedOnce ==
    /\ [](( /\ encryptedPassword # NULL
            /\ encBuf.kind = "cipher"
            /\ rsaPrivateKey # NULL ) => encBuf.key = rsaPrivateKey)
    /\ [][rsaPrivateKey # NULL =>
             /\ rsaPrivateKey' \in {rsaPrivateKey, NULL}
             /\ rsaPublicKey' \in {rsaPublicKey, NULL}]_vars

C34_OneResponsePerRequest ==
    [][\A m \in toChild \ toChild' :
          /\ Cardinality(fromChild' \ fromChild) = 1
          /\ \A x \in fromChild' \ fromChild :
                /\ x.id = m.id
                /\ x.type[1] = m.type
                /\ x.type[2] \in {"result", "error"}
                /\ m.type \notin WorkerCases => x.type[2] # "result"]_vars

\* C35: while the secret manager is not shut down and no generateSecureKeypair
\* call is under way, the key references are set exactly when the allocation
\* baseline is set (and then the baseline is positive); so a call that fails
\* its allocation check leaves the manager without keys.
C35_KeysOnlyWithBaseline ==
    (~isShutdown /\ gsk.pc = "idle") =>
        /\ (rsaPrivateKey # NULL) <=> (secureHeapAllocationBaseline # Undefined)
        /\ (rsaPublicKey # NULL) <=> (secureHeapAllocationBaseline # Undefined)
        /\ secureHeapAllocationBaseline # Undefined =>
               secureHeapAllocationBaseline > 0

\* C36: when stop() runs while the getDecryptedPassword request of a
\* withDecryptedPassword invocation is in flight, the invocation rejects with
\* the shutdown error; it stays rejected, its callback never runs and no
\* buffer is built for it; a response for its request that arrives later is
\* logged as not found and settles nothing.
C36_StopRejectsInFlightInvocation ==
    [][\A i \in DOMAIN inv :
          /\ (inv[i].pc = "awaitReq" /\ stopTick' # stopTick) =>
                /\ proc' = "running" =>
                       /\ inv'[i].pc = "failed"
                       /\ inv'[i].outcome = ShutdownMessage
                /\ inv'[i].pc \in {"awaitReq", "failed"}
                /\ inv[i].reqId \in DOMAIN settled'
                /\ settled'[inv[i].reqId].how = "rejected"
                /\ settled'[inv[i].reqId].error = ShutdownMessage
                /\ inv[i].reqId \notin DOMAIN pending'
          /\ (inv[i].pc = "failed" /\ inv[i].outcome = ShutdownMessage) =>
                /\ inv'[i] = inv[i]
                /\ inv[i].reqId \notin DOMAIN mbufs'
                /\ inv[i].reqId \notin DOMAIN payloads'
                /\ settled'[inv[i].reqId] = settled[inv[i].reqId]
                /\ \A msg \in fromChild \ fromChild' :
                      msg.id = inv[i].reqId =>
                          /\ [text |-> "Pending msg not found",
                               id |-> msg.id, type |-> <<"", "">>] \in errlog'
                          /\ UNCHANGED <<inv, mbufs, payloads, settled,
                                         pending>>]_vars

\* a result carrying the secret arrived for the request of an invocation
\* that stop() had rejected, and was discarded
C36_Witness ==
    \E i \in DOMAIN inv :
        /\ inv[i].pc = "failed" /\ inv[i].outcome = ShutdownMessage
        /\ settled[inv[i].reqId].error = ShutdownMessage
        /\ [text |-> "Pending msg not found", id |-> inv[i].reqId,
             type |-> <<"", "">>] \in errlog
        /\ \A m \in fromChild \cup toChild : m.id # inv[i].reqId
        /\ inv[i].reqId \notin DOMAIN mbufs

\* C37: concurrent withDecryptedPassword invocations are independent: the
\* invocations whose callbacks have not settled hold pairwise different
\* buffers, each restricted and not overwritten, and no step of another
\* invocation (its response, its callback's completion, its cleanup)
\* changes the buffer of an invocation whose callback is still running.
C37_InvocationsIndependent ==
    /\ [](\A i \in DOMAIN inv :
            inv[i].pc = "callback" =>
                /\ inv[i].reqId \in DOMAIN mbufs
                /\ mbufs[inv[i].reqId].guarded
                /\ mbufs[inv[i].reqId].fills = 0
                /\ mbufs[inv[i].reqId].data = payloads[inv[i].reqId].data
                /\ \A j \in DOMAIN inv \ {i} :
                      inv[j].pc # "idle" => inv[j].reqId # inv[i].reqId)
    /\ [][\A i \in DOMAIN inv :
              (inv[i].pc = "callback" /\ inv'[i].pc = "callback") =>
                  mbufs'[inv[i].reqId] = mbufs[inv[i].reqId]]_vars

\* one invocation has finished and its buffer was overwritten and
\* released, while the callback of another one still runs on its own
\* restricted, intact buffer
C37_Witness ==
    \E i, j \in DOMAIN inv :
        /\ i # j
        /\ inv[i].pc = "done" /\ inv[i].cb \in {"asyncResolve", "asyncReject"}
        /\ inv[i].reqId \in DOMAIN mbufs
        /\ mbufs[inv[i].reqId].fills >= 1
        /\ ~mbufs[inv[i].reqId].guarded
        /\ inv[j].pc = "callback"
        /\ mbufs[inv[j].reqId].guarded
        /\ mbufs[inv[j].reqId].fills = 0
        /\ inv[j].reqId < inv[i].reqId

====
